---- MODULE Spec2Model ----
(***************************************************************************)
(* Model of the AI Buddy backend (src/main.py): the rule-based text        *)
(* improvement basic_improve, the POST /api/tutor handler, the GET /test   *)
(* diagnostic handler and the two static endpoints.                        *)
(*                                                                         *)
(* Python str values are TLA+ strings; TLC evaluates Len, SubSeq and \o on *)
(* them, so the string methods the code calls (strip, lower, replace, in,  *)
(* startswith, endswith, slicing) are written out character by character.  *)
(***************************************************************************)
EXTENDS Integers, Sequences, FiniteSets, TLC

VARIABLES
    text,       \* SpecImprove: the argument handed to basic_improve
    pc,         \* SpecImprove: "start", "once" (one pass done), "twice"
    first,      \* SpecImprove: result of basic_improve(text)
    second,     \* SpecImprove: result of basic_improve(first.improved)
    request,    \* Spec: the request being answered (endpoint and inputs)
    response,   \* Spec: the body the handler returned, or a raised marker
    called      \* Spec: the functions the handler invoked on the way

vars == <<text, pc, first, second, request, response, called>>

-----------------------------------------------------------------------------
(* Bounds of the model.                                                    *)

MaxLen == 3        \* longest text enumerated over Alphabet for basic_improve
MaxMsgLen == 1     \* longest message enumerated over Alphabet for /api/tutor
MaxErrLen == 52    \* longest exception text the database collaborator raises
MaxColl == 12      \* most collection names the database collaborator lists

-----------------------------------------------------------------------------
(* Python string primitives.                                               *)

UPPERCASE == "ABCDEFGHIJKLMNOPQRSTUVWXYZ"
LOWERCASE == "abcdefghijklmnopqrstuvwxyz"
WHITESPACE == {" ", "\t", "\n", "\r"}

Min(a, b) == IF a < b THEN a ELSE b

\* s[i] for a 1-based index inside the string
Char(s, i) == SubSeq(s, i, i)

\* s[:n]
Prefix(s, n) == SubSeq(s, 1, Min(n, Len(s)))

\* s[n:] for 0 <= n (n characters dropped)
Suffix(s, n) == SubSeq(s, n + 1, Len(s))

\* c.lower() for one character
lower_char(c) ==
    IF \E k \in 1..Len(UPPERCASE) : Char(UPPERCASE, k) = c
    THEN Char(LOWERCASE, CHOOSE k \in 1..Len(UPPERCASE) : Char(UPPERCASE, k) = c)
    ELSE c

\* c.upper() for one character
upper_char(c) ==
    IF \E k \in 1..Len(LOWERCASE) : Char(LOWERCASE, k) = c
    THEN Char(UPPERCASE, CHOOSE k \in 1..Len(LOWERCASE) : Char(LOWERCASE, k) = c)
    ELSE c

\* s.lower()
RECURSIVE lower(_)
lower(s) == IF s = "" THEN "" ELSE lower_char(Char(s, 1)) \o lower(Suffix(s, 1))

\* s.lstrip(), s.rstrip(), s.strip()
RECURSIVE lstrip(_)
lstrip(s) ==
    IF s # "" /\ Char(s, 1) \in WHITESPACE THEN lstrip(Suffix(s, 1)) ELSE s

RECURSIVE rstrip(_)
rstrip(s) ==
    IF s # "" /\ Char(s, Len(s)) \in WHITESPACE
    THEN rstrip(Prefix(s, Len(s) - 1)) ELSE s

strip(s) == rstrip(lstrip(s))

\* s.startswith(p), s.endswith(p)
startswith(s, p) == Len(p) <= Len(s) /\ Prefix(s, Len(p)) = p
endswith(s, p) == Len(p) <= Len(s) /\ Suffix(s, Len(s) - Len(p)) = p

\* sub in s
contains(s, sub) ==
    \E i \in 0..(Len(s) - Len(sub)) : SubSeq(s, i + 1, i + Len(sub)) = sub

\* Mutant of replace: s.replace(old, new, 1), only the first occurrence
RECURSIVE replace_first_only(_, _, _)
replace_first_only(s, old, new) ==
    IF Len(s) < Len(old) THEN s
    ELSE IF Prefix(s, Len(old)) = old
         THEN new \o Suffix(s, Len(old))
         ELSE Char(s, 1) \o replace_first_only(Suffix(s, 1), old, new)

\* s.replace(old, new) for a non-empty old: every non-overlapping occurrence,
\* found left to right
RECURSIVE replace(_, _, _)
replace(s, old, new) ==
    IF Len(s) < Len(old) THEN s
    ELSE IF Prefix(s, Len(old)) = old
         THEN new \o replace(Suffix(s, Len(old)), old, new)
         ELSE Char(s, 1) \o replace(Suffix(s, 1), old, new)

-----------------------------------------------------------------------------
(* basic_improve (src/main.py:29-88).                                      *)

\* The correction dictionary, in its insertion order: <<wrong, right>>
COMMON_CORRECTIONS == <<
    <<"i am", "I am">>,
    <<"i", "I">>,
    <<"dont", "don't">>,
    <<"doesnt", "doesn't">>,
    <<"cant", "can't">>,
    <<"wont", "won't">>,
    <<"im", "I'm">>,
    <<"u", "you">>,
    <<"ur", "your">>,
    <<"r", "are">>,
    <<"there english", "their English">>,
    <<"there are", "there are">>,
    <<"they is", "they are">>,
    <<"he have", "he has">>,
    <<"she have", "she has">>,
    <<"i has", "I have">> >>

\* The interrogative lead-words of the question check
QUESTION_LEADS == <<"what", "why", "how", "where", "when", "who", "which",
                    "do ", "does ", "is ", "are ", "can ", "could ", "would ">>

TERMINAL_PUNCTUATION == {".", "?", "!"}

ENCOURAGEMENT == "Great job! Your sentence looks good. Try to add more detail."

\* f"Consider using '{right}' instead of '{wrong}'."
correction_tip(right, wrong) ==
    "Consider using '" \o right \o "' instead of '" \o wrong \o "'."

\* The dictionary loop from entry k to entry last, on the text as modified
\* so far: a matching entry replaces every occurrence and appends its tip.
RECURSIVE apply_corrections(_, _, _, _)
apply_corrections(k, last, improved, suggestions) ==
    IF k > last THEN [improved |-> improved, suggestions |-> suggestions]
    ELSE LET wrong == COMMON_CORRECTIONS[k][1]
             right == COMMON_CORRECTIONS[k][2]
         IN  IF contains(improved, wrong)
             THEN apply_corrections(k + 1, last,
                                    replace(improved, wrong, right),
                                    Append(suggestions, correction_tip(right, wrong)))
             ELSE apply_corrections(k + 1, last, improved, suggestions)

\* The whole dictionary pass over the lowered text
corrections_pass(lowered) ==
    apply_corrections(1, Len(COMMON_CORRECTIONS), lowered, <<>>)

\* if improved: improved = improved[0].upper() + improved[1:]
capitalize_first(improved) ==
    IF improved # "" THEN upper_char(Char(improved, 1)) \o Suffix(improved, 1)
    ELSE improved

\* Mutant of add_period: the check of the last character is left out
add_period_always(improved) ==
    IF improved # "" THEN improved \o "." ELSE improved

\* if improved and improved[-1] not in ".?!": improved += "."
add_period(improved) ==
    IF improved # "" /\ Char(improved, Len(improved)) \notin TERMINAL_PUNCTUATION
    THEN improved \o "."
    ELSE improved

\* any(improved.lower().startswith(q) for q in [...])
starts_with_question_lead(improved) ==
    \E k \in 1..Len(QUESTION_LEADS) : startswith(lower(improved), QUESTION_LEADS[k])

\* Mutant of fix_question_mark: the lead-word condition is left out
fix_question_mark_always(improved) ==
    IF endswith(improved, ".")
    THEN Prefix(improved, Len(improved) - 1) \o "?"
    ELSE improved

\* if <lead-word>: if improved.endswith("."): improved = improved[:-1] + "?"
fix_question_mark(improved) ==
    IF starts_with_question_lead(improved) /\ endswith(improved, ".")
    THEN Prefix(improved, Len(improved) - 1) \o "?"
    ELSE improved

\* Mutant of add_encouragement: "if improved and improved == original"
add_encouragement_nonempty(improved, original, suggestions) ==
    IF improved # "" /\ improved = original
    THEN Append(suggestions, ENCOURAGEMENT) ELSE suggestions

\* Mutant of add_encouragement: suggestions.insert(0, <encouragement>)
add_encouragement_first(improved, original, suggestions) ==
    IF improved = original THEN <<ENCOURAGEMENT>> \o suggestions ELSE suggestions

\* if improved == original: suggestions.append(<encouragement>)
add_encouragement(improved, original, suggestions) ==
    IF improved = original THEN Append(suggestions, ENCOURAGEMENT) ELSE suggestions

\* basic_improve(text) -> (improved, suggestions)
basic_improve(t) ==
    LET original == strip(t)
        lowered == lower(original)
        fixed == corrections_pass(lowered)
        improved == fix_question_mark(add_period(capitalize_first(fixed.improved)))
    IN  [improved |-> improved,
         suggestions |-> add_encouragement(improved, original, fixed.suggestions)]

-----------------------------------------------------------------------------
(* Inputs of basic_improve.                                                *)

\* Characters of the enumerated texts: the one-letter dictionary keys, the
\* letters of "im", "is " and "I am", an upper-case letter that is no key,
\* white space and terminal punctuation
Alphabet == {"i", "I", "u", "r", "a", "m", "s", "B", " ", ".", "?"}

\* Every text over Alphabet of length at most n
RECURSIVE TextsUpTo(_)
TextsUpTo(n) ==
    IF n = 0 THEN {""}
    ELSE LET shorter == TextsUpTo(n - 1)
         IN  shorter \cup {s \o c : s \in shorter, c \in Alphabet}

\* Whole sentences: the examples of the specification, one per lead-word
\* shape, and sentences that need no change
Sentences == {
    "what is your name", "i dont know", "Hello.", "Hello Bob.", "Call me now.",
    "My name was Bob.", "  Do we go.  ", "do we go", "does he go", "What?",
    "who", "where do we go.", "can we go!", "candy", "how now", "why", "\t \n",
    "he doesnt have a pen", "she cant go", "we wont go", "Yes!", "No", "ok. " }

\* Every dictionary key between two paddings
Paddings == {"", " ", "s", "a ", "."}
KeyedTexts ==
    {p \o COMMON_CORRECTIONS[k][1] \o q :
        k \in 1..Len(COMMON_CORRECTIONS), p \in Paddings, q \in Paddings}

Inputs == TextsUpTo(MaxLen) \cup Sentences \cup KeyedTexts

NoResult == [improved |-> "", suggestions |-> <<>>]
NoRequest == [endpoint |-> "none"]
NoResponse == [status |-> "none"]

-----------------------------------------------------------------------------
(* SpecImprove: basic_improve applied to a text, then to its own output.   *)

InitImprove ==
    /\ text \in Inputs
    /\ pc = "start"
    /\ first = NoResult
    /\ second = NoResult
    /\ request = NoRequest
    /\ response = NoResponse
    /\ called = {}

FirstPass ==
    /\ pc = "start"
    /\ first' = basic_improve(text)
    /\ pc' = "once"
    /\ UNCHANGED <<text, second, request, response, called>>

SecondPass ==
    /\ pc = "once"
    /\ second' = basic_improve(first.improved)
    /\ pc' = "twice"
    /\ UNCHANGED <<text, first, request, response, called>>

NextImprove == FirstPass \/ SecondPass

SpecImprove == InitImprove /\ [][NextImprove]_vars

-----------------------------------------------------------------------------
(* POST /api/tutor (src/main.py:18-26, 48-53, 143-182).                    *)

END_PROMPTS == <<
    "Tell me about your day in three sentences.",
    "Describe your favorite teacher and why you like them.",
    "What is your hobby? Explain it like you are teaching a friend.",
    "Make a short plan for tomorrow using future tense." >>

\* TutorRequest: message is required, level defaults to "beginner" when the
\* body leaves it out
DEFAULT_LEVEL == "beginner"

TutorRequest(body) ==
    [message |-> body.message,
     level |-> IF "level" \in DOMAIN body THEN body.level ELSE DEFAULT_LEVEL]

\* Mutant of compose_reply: every level but "advanced" gets the beginner reply
compose_reply_beginner_by_default(level, user_text, improved) ==
    IF level = "advanced"
    THEN "Your idea is good. A more natural phrasing is: '" \o improved \o "'. "
         \o "Consider adding specific details and varied vocabulary."
    ELSE "You said: '" \o user_text \o "'. Here is a clearer version: '"
         \o improved \o "'. "
         \o "Well done! Try to use full sentences and simple tenses."

\* Mutant of compose_reply: the "advanced" branch is missing
compose_reply_without_advanced(level, user_text, improved) ==
    IF level = "beginner"
    THEN "You said: '" \o user_text \o "'. Here is a clearer version: '"
         \o improved \o "'. "
         \o "Well done! Try to use full sentences and simple tenses."
    ELSE "Nice! You can say: '" \o improved \o "'. "
         \o "Keep practicing your rhythm and pronunciation."

\* The branch on req.level that builds the reply
compose_reply(level, user_text, improved) ==
    IF level = "beginner"
    THEN "You said: '" \o user_text \o "'. Here is a clearer version: '"
         \o improved \o "'. "
         \o "Well done! Try to use full sentences and simple tenses."
    ELSE IF level = "advanced"
    THEN "Your idea is good. A more natural phrasing is: '" \o improved \o "'. "
         \o "Consider adding specific details and varied vocabulary."
    ELSE "Nice! You can say: '" \o improved \o "'. "
         \o "Keep practicing your rhythm and pronunciation."

\* The early return for a message that is empty once stripped
empty_message_response ==
    [reply |-> "I didn't hear anything. Try saying a simple sentence about your day.",
     suggestions |-> <<"Speak slowly and clearly.", "Start with: 'Today I ...'">>,
     prompt |-> "Say: 'Today I woke up early and ...'"]

\* tips or ["Great effort! Add one more sentence to continue."]
tips_or_fallback(tips) ==
    IF tips # <<>> THEN tips
    ELSE <<"Great effort! Add one more sentence to continue.">>

\* Mutant of tutor: the emptiness test reads req.message, not the stripped text
tutor_unstripped(req, choice) ==
    LET user_text == strip(req.message)
        result == basic_improve(user_text)
    IN  IF req.message = ""
        THEN [body |-> empty_message_response, called |-> {}]
        ELSE [body |-> [reply |-> compose_reply(req.level, user_text, result.improved),
                        suggestions |-> tips_or_fallback(result.suggestions),
                        prompt |-> END_PROMPTS[choice]],
              called |-> {"basic_improve", "random.choice"}]

\* The handler. choice is the index random.choice draws from END_PROMPTS.
\* The result names the TutorResponse and the functions invoked to build it.
tutor(req, choice) ==
    LET user_text == strip(req.message)
        result == basic_improve(user_text)
    IN  IF user_text = ""
        THEN [body |-> empty_message_response, called |-> {}]
        ELSE [body |-> [reply |-> compose_reply(req.level, user_text, result.improved),
                        suggestions |-> tips_or_fallback(result.suggestions),
                        prompt |-> END_PROMPTS[choice]],
              called |-> {"basic_improve", "random.choice"}]

-----------------------------------------------------------------------------
(* GET /test (src/main.py:101-140).                                        *)
(* The pictographs that open the texts of the source are left out.         *)

ERROR_TEXT_LIMIT == 50     \* str(e)[:50]
COLLECTIONS_LIMIT == 10    \* collections[:10]

None == "None"

initial_response ==
    [backend |-> "Running",
     database |-> "Not Available",
     database_url |-> None,
     database_name |-> None,
     connection_status |-> "Not Connected",
     collections |-> <<>>]

NoException == [kind |-> "none"]

\* response["database_name"] = db.name if hasattr(db, 'name') else "Connected"
\* Reading the attribute may itself raise something else than AttributeError.
read_name(db, resp) ==
    IF db.name.kind = "value"
    THEN [exc |-> NoException, resp |-> [resp EXCEPT !.database_name = db.name.value]]
    ELSE IF db.name.kind = "absent"
    THEN [exc |-> NoException, resp |-> [resp EXCEPT !.database_name = "Connected"]]
    ELSE [exc |-> [kind |-> "Exception", text |-> db.name.error], resp |-> resp]

\* The inner try: list the collections, keep the first ten; any Exception is
\* caught and reported with the first fifty characters of its text
list_collections(db, resp) ==
    IF db.listing.kind = "names"
    THEN [resp EXCEPT !.collections = Prefix(db.listing.names, COLLECTIONS_LIMIT),
                      !.database = "Connected & Working"]
    ELSE [resp EXCEPT !.database =
              "Connected but Error: " \o Prefix(db.listing.error, ERROR_TEXT_LIMIT)]

\* The statements of the outer try, up to the exception that leaves them
try_body(collab, resp) ==
    IF collab.module = "missing" \/ collab.module = "no_db_attribute"
    THEN [exc |-> [kind |-> "ImportError"], resp |-> resp]
    ELSE IF collab.module = "import_raises"
    THEN [exc |-> [kind |-> "Exception", text |-> collab.error], resp |-> resp]
    ELSE IF collab.db.kind = "none"
    THEN [exc |-> NoException,
          resp |-> [resp EXCEPT !.database = "Available but not initialized"]]
    ELSE LET available == [resp EXCEPT !.database = "Available",
                                       !.database_url = "Configured"]
             named == read_name(collab.db, available)
         IN  IF named.exc # NoException THEN named
             ELSE [exc |-> NoException,
                   resp |-> list_collections(collab.db,
                                [named.resp EXCEPT !.connection_status = "Connected"])]

\* Mutant of outer_handlers: only ImportError is caught
outer_handlers_import_only(attempt) ==
    IF attempt.exc.kind = "ImportError"
    THEN [exc |-> NoException,
          resp |-> [attempt.resp EXCEPT !.database =
                       "Database module not found (run enable-database first)"]]
    ELSE attempt

\* except ImportError / except Exception of the outer try
outer_handlers(attempt) ==
    IF attempt.exc.kind = "ImportError"
    THEN [exc |-> NoException,
          resp |-> [attempt.resp EXCEPT !.database =
                       "Database module not found (run enable-database first)"]]
    ELSE IF attempt.exc.kind = "Exception"
    THEN [exc |-> NoException,
          resp |-> [attempt.resp EXCEPT !.database =
                       "Error: " \o Prefix(attempt.exc.text, ERROR_TEXT_LIMIT)]]
    ELSE attempt

\* "Set" if os.getenv(NAME) else "Not Set": unset and empty both count as unset
env_text(env, name) ==
    IF name \in DOMAIN env /\ env[name] # "" THEN "Set" ELSE "Not Set"

\* The handler: the response body, or the exception that escapes it
test_database(collab, env) ==
    LET attempt == outer_handlers(try_body(collab, initial_response))
    IN  IF attempt.exc # NoException
        THEN [status |-> 500, raised |-> attempt.exc]
        ELSE [status |-> 200,
              body |-> [attempt.resp EXCEPT
                           !.database_url = env_text(env, "DATABASE_URL"),
                           !.database_name = env_text(env, "DATABASE_NAME")]]

-----------------------------------------------------------------------------
(* GET / and GET /api/hello (src/main.py:91-98).                           *)

read_root == [message |-> "ZPHS Kuchanpally AI Buddy Backend"]
hello == [message |-> "Hello from the backend API!"]

-----------------------------------------------------------------------------
(* Requests.                                                               *)

Levels == {"beginner", "intermediate", "advanced", "expert", "Beginner", ""}
Messages == TextsUpTo(MaxMsgLen) \cup Sentences

\* JSON bodies of POST /api/tutor: with a level, without one, without message
TutorBodies ==
    {[message |-> m, level |-> l] : m \in Messages, l \in Levels}
        \cup {[message |-> m] : m \in Messages}
        \cup {[level |-> l] : l \in Levels}

\* Exception texts and collection listings of every length up to the bounds
DIGITS == "0123456789"

RECURSIVE ErrorText(_)
ErrorText(n) ==
    IF n = 0 THEN "" ELSE ErrorText(n - 1) \o Char(DIGITS, (n % Len(DIGITS)) + 1)

RECURSIVE CollectionNames(_)
CollectionNames(n) ==
    IF n = 0 THEN <<>> ELSE Append(CollectionNames(n - 1), "c" \o ErrorText(n))

ErrorTexts == {ErrorText(n) : n \in 0..MaxErrLen}

Listings ==
    {[kind |-> "names", names |-> CollectionNames(n)] : n \in 0..MaxColl}
        \cup {[kind |-> "raises", error |-> e] : e \in ErrorTexts}

NameAttributes ==
    {[kind |-> "absent"], [kind |-> "value", value |-> "appdb"]}
        \cup {[kind |-> "raises", error |-> e] :
                 e \in {ErrorText(0), ErrorText(MaxErrLen)}}

\* The optional database collaborator as GET /test may find it
Collaborators ==
    {[module |-> "missing"], [module |-> "no_db_attribute"]}
        \cup {[module |-> "import_raises", error |-> e] : e \in ErrorTexts}
        \cup {[module |-> "present", db |-> [kind |-> "none"]]}
        \cup {[module |-> "present",
                db |-> [kind |-> "handle", name |-> a, listing |-> l]] :
                 a \in NameAttributes, l \in Listings}

EnvNames == {"DATABASE_URL", "DATABASE_NAME"}
Environments ==
    UNION {[names -> {"", "mongodb://localhost"}] : names \in SUBSET EnvNames}

-----------------------------------------------------------------------------
(* Spec: the server answering one request after another. No handler keeps  *)
(* state between requests: a handler takes the idle server to the          *)
(* exchange it produced, and delivering the response makes it idle again.  *)

Init ==
    /\ text = ""
    /\ pc = "idle"
    /\ first = NoResult
    /\ second = NoResult
    /\ request = NoRequest
    /\ response = NoResponse
    /\ called = {}

ReadRoot ==
    /\ request = NoRequest
    /\ request' = [endpoint |-> "GET /"]
    /\ response' = [status |-> 200, body |-> read_root]
    /\ called' = {}
    /\ UNCHANGED <<text, pc, first, second>>

Hello ==
    /\ request = NoRequest
    /\ request' = [endpoint |-> "GET /api/hello"]
    /\ response' = [status |-> 200, body |-> hello]
    /\ called' = {}
    /\ UNCHANGED <<text, pc, first, second>>

TestDatabase ==
    \E collab \in Collaborators, env \in Environments :
        /\ request = NoRequest
        /\ request' = [endpoint |-> "GET /test", collab |-> collab, env |-> env]
        /\ response' = test_database(collab, env)
        /\ called' = {}
        /\ UNCHANGED <<text, pc, first, second>>

\* Schema validation rejects a body without message before tutor runs
TutorRejected ==
    \E body \in TutorBodies :
        /\ request = NoRequest
        /\ "message" \notin DOMAIN body
        /\ request' = [endpoint |-> "POST /api/tutor", body |-> body]
        /\ response' = [status |-> 422]
        /\ called' = {}
        /\ UNCHANGED <<text, pc, first, second>>

Tutor ==
    \E body \in TutorBodies, choice \in 1..Len(END_PROMPTS) :
        /\ request = NoRequest
        /\ "message" \in DOMAIN body
        /\ LET answer == tutor(TutorRequest(body), choice)
           IN  /\ request' = [endpoint |-> "POST /api/tutor", body |-> body]
               /\ response' = [status |-> 200, body |-> answer.body]
               /\ called' = answer.called
        /\ UNCHANGED <<text, pc, first, second>>

\* The response has been sent; nothing of the exchange is kept
Deliver ==
    /\ request # NoRequest
    /\ request' = NoRequest
    /\ response' = NoResponse
    /\ called' = {}
    /\ UNCHANGED <<text, pc, first, second>>

Next == ReadRoot \/ Hello \/ TestDatabase \/ TutorRejected \/ Tutor \/ Deliver

Spec == Init /\ [][Next]_vars

-----------------------------------------------------------------------------
(* Vocabulary of the properties.                                           *)

Improved == pc \in {"once", "twice"}
Trimmed == strip(text)

OnlyWhitespace(s) == \A i \in 1..Len(s) : Char(s, i) \in {" ", "\t", "\n", "\r"}

Members(seq) == {seq[i] : i \in 1..Len(seq)}

IsCorrectionTip(tip) == startswith(tip, "Consider using '")

EncouragementTip == "Great job! Your sentence looks good. Try to add more detail."

\* Some dictionary key occurs in s
ContainsKey(s) ==
    \E k \in 1..Len(COMMON_CORRECTIONS) : contains(s, COMMON_CORRECTIONS[k][1])

IsLowerLetter(c) == \E k \in 1..Len(LOWERCASE) : Char(LOWERCASE, k) = c
IsUpperLetter(c) == \E k \in 1..Len(UPPERCASE) : Char(UPPERCASE, k) = c

\* b is a with nothing but terminal punctuation added at its end
GainsOnlyTerminalPunctuation(a, b) ==
    /\ Len(b) > Len(a)
    /\ Prefix(b, Len(a)) = a
    /\ \A i \in (Len(a) + 1)..Len(b) : Char(b, i) \in {".", "?", "!"}

-----------------------------------------------------------------------------
(* C1 - empty input.                                                       *)

\* C1 as stated: for every text that is empty once trimmed, basic_improve
\* returns the empty string together with an empty suggestions list.
C1_EmptyInputNoSuggestions ==
    (Improved /\ OnlyWhitespace(text)) =>
        (first.improved = "" /\ first.suggestions = <<>>)

\* C1 amended: for every text that is empty once trimmed, basic_improve
\* returns the empty string together with a suggestions list that holds
\* exactly the encouraging suggestion (the empty result equals the empty
\* trimmed input, so the final comparison appends it).
C1_EmptyInputEncouraged ==
    (Improved /\ OnlyWhitespace(text)) =>
        (first.improved = "" /\ first.suggestions = <<EncouragementTip>>)

C1_Witness ==
    pc = "once" /\ text # "" /\ OnlyWhitespace(text) /\ first.improved = ""

-----------------------------------------------------------------------------
(* C2 - a second pass over the output.                                     *)

\* C2 as stated: with (s1, _) = basic_improve(t) and (s2, tips2) =
\* basic_improve(s1), tips2 is empty and s2 is s1 or s1 with only terminal
\* punctuation added.
C2_SecondPassSilent ==
    pc = "twice" =>
        /\ second.suggestions = <<>>
        /\ \/ second.improved = first.improved
           \/ GainsOnlyTerminalPunctuation(first.improved, second.improved)

\* C2 amended: the second pass never returns an empty suggestions list. If
\* s1, lower-cased, contains no dictionary key, then s2 = s1 and tips2 is
\* exactly the encouraging suggestion; otherwise the second pass emits
\* correction suggestions again.
C2_SecondPass ==
    pc = "twice" =>
        /\ second.suggestions # <<>>
        /\ ~ContainsKey(lower(first.improved)) =>
               /\ second.improved = first.improved
               /\ second.suggestions = <<EncouragementTip>>
        /\ ContainsKey(lower(first.improved)) =>
               \E tip \in Members(second.suggestions) : IsCorrectionTip(tip)

C2_Witness ==
    /\ pc = "twice"
    /\ first.suggestions = <<>>
    /\ first.improved # Trimmed
    /\ ~ContainsKey(lower(first.improved))
    /\ second.improved = first.improved

-----------------------------------------------------------------------------
(* C3 - "what is your name".                                               *)

\* C3: basic_improve("what is your name") returns "What is your name?" and
\* the dictionary pass changes nothing and emits no correction suggestion.
C3_WhatIsYourName ==
    (Improved /\ text = "what is your name") =>
        /\ first.improved = "What is your name?"
        /\ \A tip \in Members(first.suggestions) : ~IsCorrectionTip(tip)

-----------------------------------------------------------------------------
(* C4 - sentences that need no change.                                     *)

\* The case of C4, with "correctly capitalized" read as: the first character
\* is not a lower-case letter.
C4_Case ==
    /\ Trimmed # ""
    /\ ~ContainsKey(lower(Trimmed))
    /\ \A k \in 1..Len(QUESTION_LEADS) : ~startswith(lower(Trimmed), QUESTION_LEADS[k])
    /\ Char(Trimmed, Len(Trimmed)) \in {".", "?", "!"}
    /\ ~IsLowerLetter(Char(Trimmed, 1))

NoUpperAfterFirst(s) == \A i \in 2..Len(s) : ~IsUpperLetter(Char(s, i))

\* C4 as stated: for every non-empty input with no dictionary substring, no
\* question lead-word, terminal punctuation at its end and a capitalized
\* start, the suggestions list is exactly the encouraging suggestion.
C4_OnlyEncouragement ==
    (Improved /\ C4_Case) => first.suggestions = <<EncouragementTip>>

\* C4 amended: the same, for inputs that moreover hold no upper-case letter
\* after their first character (the rest of the text is lower-cased by the
\* function, so any other input comes back changed and gets no suggestion).
C4_OnlyEncouragementLowerRest ==
    (Improved /\ C4_Case /\ NoUpperAfterFirst(Trimmed)) =>
        (first.suggestions = <<EncouragementTip>> /\ first.improved = Trimmed)

C4_Witness ==
    /\ pc = "once"
    /\ C4_Case
    /\ NoUpperAfterFirst(Trimmed)
    /\ IsUpperLetter(Char(Trimmed, 1))
    /\ Len(Trimmed) > 2
    /\ first.suggestions # <<>>

-----------------------------------------------------------------------------
(* C5 - encouragement and corrections.                                     *)

\* C5 as stated: whenever the final improved string equals the trimmed
\* input, the suggestions list holds the single encouraging suggestion and
\* no correction suggestion; the encouraging suggestion is never present
\* when the improved string differs from the trimmed input.
C5_EncouragementReplaces ==
    Improved =>
        /\ first.improved = Trimmed => first.suggestions = <<EncouragementTip>>
        /\ first.improved # Trimmed => EncouragementTip \notin Members(first.suggestions)

\* C5 amended: the encouraging suggestion accompanies the corrections.
\* Whenever the final improved string equals the trimmed input, the list
\* ends with the encouraging suggestion, which occurs once, after the
\* correction suggestions the dictionary pass emitted (if any); it is never
\* present when the improved string differs from the trimmed input.
C5_EncouragementAppended ==
    Improved =>
        /\ first.improved = Trimmed =>
               /\ first.suggestions # <<>>
               /\ first.suggestions[Len(first.suggestions)] = EncouragementTip
               /\ \A i \in 1..(Len(first.suggestions) - 1) :
                      IsCorrectionTip(first.suggestions[i])
        /\ first.improved # Trimmed => EncouragementTip \notin Members(first.suggestions)

C5_Witness ==
    /\ pc = "once"
    /\ first.improved = Trimmed
    /\ Len(first.suggestions) > 1
    /\ IsCorrectionTip(first.suggestions[1])

-----------------------------------------------------------------------------
(* C10 - dictionary entries that never fire.                               *)

DeadKeyTips == {
    "Consider using 'I'm' instead of 'im'.",
    "Consider using 'they are' instead of 'they is'.",
    "Consider using 'I have' instead of 'i has'.",
    "Consider using 'their English' instead of 'there english'.",
    "Consider using 'there are' instead of 'there are'." }

DeadKeys == {"im", "they is", "i has", "there english", "there are"}

\* Position of a key in the dictionary
KeyIndex(key) ==
    CHOOSE k \in 1..Len(COMMON_CORRECTIONS) : COMMON_CORRECTIONS[k][1] = key

\* The text as the dictionary loop holds it when it consults entry k
TextBeforeEntry(t, k) == apply_corrections(1, k - 1, lower(strip(t)), <<>>).improved

\* C10: for every input, basic_improve never emits the correction suggestion
\* for "im", "they is", "i has", "there english" or "there are": when each
\* is consulted the text holds no occurrence of it, since after "i" -> "I"
\* no lower-case i remains and after "r" -> "are" every r follows an a.
C10_DeadKeys ==
    Improved =>
        /\ Members(first.suggestions) \cap DeadKeyTips = {}
        /\ \A key \in DeadKeys : ~contains(TextBeforeEntry(text, KeyIndex(key)), key)
        /\ ~contains(TextBeforeEntry(text, KeyIndex("i") + 1), "i")
        /\ LET after == TextBeforeEntry(text, KeyIndex("r") + 1)
           IN  \A i \in 1..Len(after) :
                   Char(after, i) = "r" => (i > 1 /\ Char(after, i - 1) = "a")

C10_Witness ==
    /\ pc = "once"
    /\ \E key \in DeadKeys : contains(lower(Trimmed), key)
    /\ contains(lower(Trimmed), "there are")
    /\ first.suggestions # <<>>

-----------------------------------------------------------------------------
(* Vocabulary of the properties of the handlers.                           *)

TutorAnswered == request.endpoint = "POST /api/tutor" /\ response.status = 200
LevelOmitted == "level" \notin DOMAIN request.body
LevelIs(l) == "level" \in DOMAIN request.body /\ request.body.level = l
LevelUnrecognized ==
    /\ "level" \in DOMAIN request.body
    /\ request.body.level \notin {"beginner", "intermediate", "advanced"}

TrimmedMessage == strip(request.body.message)
ImprovedMessage == basic_improve(TrimmedMessage).improved

TemplateA(original, improved) ==
    "You said: '" \o original \o "'. Here is a clearer version: '" \o improved
        \o "'. Well done! Try to use full sentences and simple tenses."

TemplateB(improved) ==
    "Your idea is good. A more natural phrasing is: '" \o improved
        \o "'. Consider adding specific details and varied vocabulary."

TemplateC(improved) ==
    "Nice! You can say: '" \o improved
        \o "'. Keep practicing your rhythm and pronunciation."

-----------------------------------------------------------------------------
(* C6 - the beginner reply.                                                *)

\* C6 as stated: when the level is "beginner", is omitted or is an
\* unrecognized value, the reply is template A, quoting the trimmed message
\* and the improved text. (Read for the messages that get a composed reply,
\* those not empty once trimmed.)
C6_TemplateAByDefault ==
    (/\ TutorAnswered
     /\ ~OnlyWhitespace(request.body.message)
     /\ (LevelIs("beginner") \/ LevelOmitted \/ LevelUnrecognized)) =>
        response.body.reply = TemplateA(TrimmedMessage, ImprovedMessage)

\* C6 amended: for a message that is not empty once trimmed, the reply is
\* template A when the level is "beginner" or is omitted; an unrecognized
\* level gets the third, generic template, like "intermediate".
C6_TemplateAForBeginner ==
    (TutorAnswered /\ ~OnlyWhitespace(request.body.message)) =>
        /\ (LevelIs("beginner") \/ LevelOmitted) =>
               response.body.reply = TemplateA(TrimmedMessage, ImprovedMessage)
        /\ (LevelUnrecognized \/ LevelIs("intermediate")) =>
               response.body.reply = TemplateC(ImprovedMessage)

C6_Witness ==
    /\ TutorAnswered
    /\ LevelOmitted
    /\ ~OnlyWhitespace(request.body.message)
    /\ ImprovedMessage # TrimmedMessage
    /\ TrimmedMessage # request.body.message

-----------------------------------------------------------------------------
(* C7 - the advanced reply.                                                *)

\* C7 as stated: with level "advanced" and any message, the reply is
\* template B, which quotes the improved text only.
C7_TemplateBAnyMessage ==
    (TutorAnswered /\ LevelIs("advanced")) =>
        response.body.reply = TemplateB(ImprovedMessage)

\* C7 amended: with level "advanced" and any message that is not empty once
\* trimmed, the reply is template B, which quotes the improved text only.
C7_TemplateBNonEmpty ==
    (TutorAnswered /\ LevelIs("advanced") /\ ~OnlyWhitespace(request.body.message)) =>
        response.body.reply = TemplateB(ImprovedMessage)

C7_Witness ==
    /\ TutorAnswered
    /\ LevelIs("advanced")
    /\ ~OnlyWhitespace(request.body.message)
    /\ ImprovedMessage # TrimmedMessage
    /\ ~contains(response.body.reply, TrimmedMessage)

-----------------------------------------------------------------------------
(* C8 - the empty message.                                                 *)

\* C8: whenever the message is empty once trimmed, the response is the same
\* fixed reply, two-item suggestions list and prompt for every level, and
\* neither basic_improve nor the random draw of a prompt is invoked.
C8_EmptyMessageFixed ==
    (TutorAnswered /\ OnlyWhitespace(request.body.message)) =>
        /\ response.body.reply =
               "I didn't hear anything. Try saying a simple sentence about your day."
        /\ response.body.suggestions =
               <<"Speak slowly and clearly.", "Start with: 'Today I ...'">>
        /\ response.body.prompt = "Say: 'Today I woke up early and ...'"
        /\ response.body.prompt \notin Members(END_PROMPTS)
        /\ called = {}

C8_Witness ==
    /\ TutorAnswered
    /\ LevelIs("advanced")
    /\ request.body.message # ""
    /\ OnlyWhitespace(request.body.message)

-----------------------------------------------------------------------------
(* C9 - GET /test.                                                         *)

TestAnswered == request.endpoint = "GET /test"

HandlePresent ==
    request.collab.module = "present" /\ request.collab.db.kind = "handle"

\* The listing is attempted: the handle is there and reading its name did
\* not raise
ListingAttempted == HandlePresent /\ request.collab.db.name.kind # "raises"

EnvSet(name) == name \in DOMAIN request.env /\ request.env[name] # ""

====
